---- MODULE Spec2Model ----
(***************************************************************************)
(* Model of the news-aggregation engine: duplicate detection by DBSCAN     *)
(* over cosine distances (ai_processor.detect_duplicates), highlight       *)
(* synthesis (ai_processor.generate_highlights), the OpenAI quota flag     *)
(* (ai_processor._openai_quota_exceeded) consulted by summarize_article,   *)
(* and the RAG chatbot (rag_chatbot.index_highlights / query).             *)
(*                                                                         *)
(* Spec, GateSpec, SynthSpec and IndexSpec run the operations one after    *)
(* the other; TextSpec runs the two text fallbacks on texts of given       *)
(* lengths; TripSpec runs summarize_article statement by statement in      *)
(* concurrent pipelines, RebuildSpec runs index_highlights and query call  *)
(* by call in two threads.                                                 *)
(*                                                                         *)
(* Similarities and distances are in hundredths (0.85 is 85); priority     *)
(* scores are in halves (0.5 is 1).                                        *)
(***************************************************************************)
EXTENDS Integers, Sequences, FiniteSets

VARIABLES
    articles,        \* all_articles: the list of Article objects
    similarity,      \* cosine similarity of the embeddings, per pair of urls
    highlights,      \* result of the last generate_highlights call
    collection,      \* ids held by the chroma collection "news_highlights"
    quota_exceeded,  \* ai_processor._openai_quota_exceeded
    openai_client,   \* whether openai_client is set (both modules, same config)
    trip_warnings,   \* number of "quota exceeded ... Switching" warnings logged
    trace,           \* generation requests made by the last operation
    prev_outcome,    \* how the provider answered the request before those
    op,              \* the last operation that ran
    call,            \* the last detect_duplicates call: input, labels, failure
    response,        \* what the last operation returned, if it returns a string
    pc,              \* per thread: the statement it is about to execute
    local            \* the local variables of the threads, or of one call

vars == <<articles, similarity, highlights, collection, quota_exceeded,
          openai_client, trip_warnings, trace, prev_outcome, op, call, response,
          pc, local>>

(***************************************************************************)
(* Bounds of the model.                                                    *)
(***************************************************************************)
MaxArticles == 3
MaxGateArticles == 2
MaxSynthArticles == 3
MaxIndexArticles == 3
MaxSummarizers == 2
MaxRebuildArticles == 2
MaxSentences == 3

Categories == {"sports", "finance"}
\* 84: just below the threshold; 85: exactly the threshold
SimValues == {84, 85}
\* 101: floating point drift above 1.0 for near-identical texts, which the
\* first two articles may be
DriftValues == {101}
DriftPairs == {<<1, 2>>}
Outcomes == {"ok", "quota", "error"}

(***************************************************************************)
(* Program constants.                                                      *)
(***************************************************************************)
SIMILARITY_THRESHOLD == 85
MIN_SAMPLES == 2
NOISE == -1
SUMMARY_CAP == 300
HEAD_CAP == 200
FALLBACK_CAP == 400
ELLIPSIS == 3

None == <<>>

Range(s) == {s[i] : i \in 1..Len(s)}

(***************************************************************************)
(* detect_duplicates: the distance matrix.                                 *)
(***************************************************************************)
\* cosine_similarity(embeddings)[i][j] for the articles at positions i and j
cosine_similarity(arts, sim, i, j) ==
    LET a == arts[i].url
        b == arts[j].url
    IN  IF a = b THEN 100
        ELSE IF a < b THEN sim[<<a, b>>] ELSE sim[<<b, a>>]

\* a clip that lets negative distances through
clip_missing(x) == x

\* np.clip(x, 0, None)
clip(x) == IF x < 0 THEN 0 ELSE x

\* 1 - similarity_matrix, clipped, diagonal filled with 0
distance_matrix(arts, sim) ==
    [i \in 1..Len(arts) |->
        [j \in 1..Len(arts) |->
            IF i = j THEN 0 ELSE clip(100 - cosine_similarity(arts, sim, i, j))]]

eps == 100 - SIMILARITY_THRESHOLD

(***************************************************************************)
(* DBSCAN(eps, min_samples=2, metric='precomputed').fit_predict            *)
(***************************************************************************)
\* the library rejects a precomputed matrix holding a negative distance
DbscanRaises(D) == \E i \in DOMAIN D : \E j \in DOMAIN D[i] : D[i][j] < 0

\* a neighbourhood that leaves out the records at distance exactly eps
neighborhood_open(D, i) == {j \in DOMAIN D : D[i][j] < eps}

\* the records within eps of record i, itself included
neighborhood(D, i) == {j \in DOMAIN D : D[i][j] <= eps}

is_core(D, i) == Cardinality(neighborhood(D, i)) >= MIN_SAMPLES

\* push the still unlabelled neighbours of i, in index order
RECURSIVE PushNeighbours(_, _, _, _)
PushNeighbours(stack, labels, nb, j) ==
    IF j > Len(labels) THEN stack
    ELSE PushNeighbours(
            IF j \in nb /\ labels[j] = NOISE THEN Append(stack, j) ELSE stack,
            labels, nb, j + 1)

\* the inner while-loop of dbscan_inner: depth-first growth of one cluster
RECURSIVE Grow(_, _, _, _, _)
Grow(D, i, stack, labels, label_num) ==
    LET labelled == IF labels[i] = NOISE
                    THEN [labels EXCEPT ![i] = label_num] ELSE labels
        pushed   == IF labels[i] = NOISE /\ is_core(D, i)
                    THEN PushNeighbours(stack, labelled, neighborhood(D, i), 1)
                    ELSE stack
    IN  IF pushed = <<>> THEN labelled
        ELSE Grow(D, pushed[Len(pushed)], SubSeq(pushed, 1, Len(pushed) - 1),
                  labelled, label_num)

\* the outer for-loop of dbscan_inner
RECURSIVE Scan(_, _, _, _)
Scan(D, i, labels, label_num) ==
    IF i > Len(labels) THEN labels
    ELSE IF labels[i] # NOISE \/ ~is_core(D, i)
         THEN Scan(D, i + 1, labels, label_num)
         ELSE Scan(D, i + 1, Grow(D, i, <<>>, labels, label_num), label_num + 1)

fit_predict(D) == Scan(D, 1, [i \in DOMAIN D |-> NOISE], 0)

(***************************************************************************)
(* detect_duplicates: grouping and marking.                                *)
(***************************************************************************)
\* f"group_{cluster_id}"
group_id(cluster_id) == <<"group", cluster_id>>

\* cluster_groups[label]: the indices carrying the label, ascending
RECURSIVE indices_of(_, _, _)
indices_of(labels, label, i) ==
    IF i > Len(labels) THEN <<>>
    ELSE IF labels[i] = label
         THEN <<i>> \o indices_of(labels, label, i + 1)
         ELSE indices_of(labels, label, i + 1)

\* the inner loop without the stamp on the duplicate itself
RECURSIVE mark_cluster_unstamped(_, _, _, _)
mark_cluster_unstamped(arts, cluster_id, primary_idx, rest) ==
    IF rest = <<>> THEN arts
    ELSE LET dup_idx == Head(rest)
             a1 == [arts EXCEPT ![dup_idx].is_duplicate = TRUE]
             a2 == [a1 EXCEPT ![primary_idx].duplicate_group_id = group_id(cluster_id)]
         IN  mark_cluster_unstamped(a2, cluster_id, primary_idx, Tail(rest))

\* the inner loop marking the record one position before dup_idx
RECURSIVE mark_cluster_off_by_one(_, _, _, _)
mark_cluster_off_by_one(arts, cluster_id, primary_idx, rest) ==
    IF rest = <<>> THEN arts
    ELSE LET dup_idx == Head(rest) - 1
             a1 == [arts EXCEPT ![dup_idx].is_duplicate = TRUE,
                                ![dup_idx].duplicate_group_id = group_id(cluster_id)]
             a2 == [a1 EXCEPT ![primary_idx].duplicate_group_id = group_id(cluster_id)]
         IN  mark_cluster_off_by_one(a2, cluster_id, primary_idx, Tail(rest))

\* the inner loop over indices[1:]: mark dup_idx, stamp dup_idx and primary_idx
RECURSIVE mark_cluster(_, _, _, _)
mark_cluster(arts, cluster_id, primary_idx, rest) ==
    IF rest = <<>> THEN arts
    ELSE LET dup_idx == Head(rest)
             a1 == [arts EXCEPT ![dup_idx].is_duplicate = TRUE,
                                ![dup_idx].duplicate_group_id = group_id(cluster_id)]
             a2 == [a1 EXCEPT ![primary_idx].duplicate_group_id = group_id(cluster_id)]
         IN  mark_cluster(a2, cluster_id, primary_idx, Tail(rest))

\* a choice of the cluster's last record as primary
primary_last(indices) == indices[Len(indices)]

\* primary_idx = indices[0]
primary_first(indices) == Head(indices)

\* the loop over cluster_groups.items()
RECURSIVE mark_duplicates(_, _, _)
mark_duplicates(arts, labels, cluster_id) ==
    LET indices == indices_of(labels, cluster_id, 1)
    IN  IF indices = <<>> THEN arts
        ELSE mark_duplicates(
                mark_cluster(arts, cluster_id, primary_first(indices),
                             Tail(indices)),
                labels, cluster_id + 1)

\* a marking step that returns only the records it did not mark
processed_without_duplicates(arts, labels) ==
    SelectSeq(mark_duplicates(arts, labels, 0), LAMBDA a : ~a.is_duplicate)

\* processed_articles = articles.copy(), marked, returned
processed_articles(arts, labels) == mark_duplicates(arts, labels, 0)

\* an except branch that returns an empty list
failed_empty(arts) == <<>>

\* the except branch: return articles
failed_open(arts) == arts

\* detect_duplicates(articles); embed_ok: whether embedding_model.encode returns
detect_duplicates(arts, sim, embed_ok) ==
    IF Len(arts) < 2
    THEN [articles |-> arts, labels |-> <<>>, failed |-> FALSE, embedded |-> FALSE]
    ELSE IF ~embed_ok \/ DbscanRaises(distance_matrix(arts, sim))
    THEN [articles |-> failed_open(arts), labels |-> <<>>, failed |-> TRUE,
          embedded |-> embed_ok]
    ELSE LET labels == fit_predict(distance_matrix(arts, sim))
         IN  [articles |-> processed_articles(arts, labels),
              labels |-> labels, failed |-> FALSE, embedded |-> TRUE]

(***************************************************************************)
(* summarize_article and the quota flag.                                   *)
(***************************************************************************)
\* a signature test that matches every provider error
is_any_error(outcome) == outcome \in {"quota", "error"}

\* '429' in error_str or 'quota' in ... or 'insufficient_quota' in ...
is_quota_error(outcome) == outcome = "quota"

\* One generation request: which path, the flag on entry, whether the
\* provider was called and how it answered, what the caller got, the flag on
\* return.
Request(path, before, invoked, outcome, result, after) ==
    [op |-> path, before |-> before, invoked |-> invoked,
     outcome |-> IF invoked THEN outcome ELSE "none",
     result |-> result, after |-> after]

\* an except branch that sets the flag whatever the error
flag_set_on_error(flag, outcome) == TRUE

\* the except branch of summarize_article: the flag after a provider error
flag_after_error(flag, outcome) ==
    IF is_quota_error(outcome) THEN TRUE ELSE flag

\* the "if not openai_client or _openai_quota_exceeded" test
skips_provider(client, flag) == ~client \/ flag

\* summarize_article(article); outcome: what the provider does if called
summarize_article(flag, client, outcome) ==
    IF skips_provider(client, flag)
    THEN [flag |-> flag, warned |-> 0,
          request |-> Request("summarize", flag, FALSE, outcome, "fallback", flag)]
    ELSE IF outcome = "ok"
    THEN [flag |-> flag, warned |-> 0,
          request |-> Request("summarize", flag, TRUE, outcome, "llm", flag)]
    ELSE [flag |-> flag_after_error(flag, outcome),
          warned |-> IF is_quota_error(outcome) /\ ~flag THEN 1 ELSE 0,
          request |-> Request("summarize", flag, TRUE, outcome, "fallback",
                              flag_after_error(flag, outcome))]

(***************************************************************************)
(* generate_highlights                                                     *)
(***************************************************************************)
\* a grouping that keys every record by its own url
group_key_by_url(a) == <<"single", a.url>>

\* article.duplicate_group_id or f"single_{article.url}"
group_key(a) ==
    IF a.duplicate_group_id # None THEN a.duplicate_group_id
    ELSE <<"single", a.url>>

\* the articles of the category that are not duplicates
category_articles(arts, category) ==
    SelectSeq(arts, LAMBDA a : a.category = category /\ ~a.is_duplicate)

\* the keys of article_groups, in insertion order
RECURSIVE group_keys(_, _)
group_keys(arts, seen) ==
    IF arts = <<>> THEN seen
    ELSE IF group_key(Head(arts)) \in Range(seen)
         THEN group_keys(Tail(arts), seen)
         ELSE group_keys(Tail(arts), Append(seen, group_key(Head(arts))))

article_group(arts, key) == SelectSeq(arts, LAMBDA a : group_key(a) = key)

\* a score that counts the keywords only
priority_score_without_boost(group) ==
    2 * Cardinality(UNION {group[i].keywords : i \in 1..Len(group)})

\* number of PRIORITY_KEYWORDS found in the group's text, plus frequency * 0.5
\* (in halves)
priority_score(group) ==
    2 * Cardinality(UNION {group[i].keywords : i \in 1..Len(group)}) + Len(group)

\* the Highlight built from one group; its summary text, the primary's own or
\* the one summarize_article returned, is not part of the model (the request
\* that produced it is recorded in the trace)
make_highlight(group, category) ==
    [category |-> category,
     primary |-> group[1].url,
     urls |-> [i \in 1..Len(group) |-> group[i].url],
     frequency |-> Len(group),
     priority_score |-> priority_score(group),
     has_keywords |-> priority_score(group) > 0]

\* the loop over article_groups.items(): one highlight per group, calling
\* summarize_article for a primary that has no summary
RECURSIVE build_highlights(_, _, _, _, _, _, _)
build_highlights(arts, keys, category, flag, client, outcomes, acc) ==
    IF keys = <<>> THEN acc
    ELSE LET group == article_group(arts, Head(keys))
         IN  IF group[1].summary
             THEN build_highlights(arts, Tail(keys), category, flag, client, outcomes,
                    [acc EXCEPT !.highlights =
                        Append(@, make_highlight(group, category))])
             ELSE LET r == summarize_article(flag, client, Head(outcomes))
                  IN  build_highlights(arts, Tail(keys), category, r.flag, client,
                        Tail(outcomes),
                        [highlights |-> Append(acc.highlights,
                            make_highlight(group, category)),
                         flag |-> r.flag,
                         warned |-> acc.warned + r.warned,
                         requests |-> Append(acc.requests, r.request)])

\* an ordering that also moves a highlight ahead of its ties
sorts_before_or_ties(h, g) ==
    \/ h.priority_score > g.priority_score
    \/ h.priority_score = g.priority_score /\ h.frequency >= g.frequency

\* key=lambda x: (x.priority_score, x.frequency), reverse=True
sorts_before(h, g) ==
    \/ h.priority_score > g.priority_score
    \/ h.priority_score = g.priority_score /\ h.frequency > g.frequency

\* stable insertion of h behind every element it does not sort before
RECURSIVE insert_sorted(_, _)
insert_sorted(sorted, h) ==
    IF sorted = <<>> THEN <<h>>
    ELSE IF sorts_before(h, Head(sorted)) THEN <<h>> \o sorted
         ELSE <<Head(sorted)>> \o insert_sorted(Tail(sorted), h)

\* highlights.sort(...)
RECURSIVE sort_highlights(_, _)
sort_highlights(hs, sorted) ==
    IF hs = <<>> THEN sorted
    ELSE sort_highlights(Tail(hs), insert_sorted(sorted, Head(hs)))

\* number of summarize_article calls generate_highlights will make
summaries_needed(arts, category) ==
    LET ca == category_articles(arts, category)
        keys == group_keys(ca, <<>>)
    IN  Cardinality({k \in 1..Len(keys) : ~article_group(ca, keys[k])[1].summary})

\* generate_highlights(articles, category)
generate_highlights(arts, category, flag, client, outcomes) ==
    LET ca == category_articles(arts, category)
        built == build_highlights(ca, group_keys(ca, <<>>), category, flag, client,
                    outcomes,
                    [highlights |-> <<>>, flag |-> flag, warned |-> 0,
                     requests |-> <<>>])
    IN  [built EXCEPT !.highlights = sort_highlights(@, <<>>)]

(***************************************************************************)
(* The chatbot: index_highlights and query.                                *)
(***************************************************************************)
\* ids highlight_0 .. highlight_{n-1}, each with the document built from its
\* highlight
new_documents(hs) == [id \in 0..(Len(hs) - 1) |-> hs[id + 1]]

\* collection.add: an id the collection already holds keeps its entry
collection_add(coll, docs) ==
    [id \in (DOMAIN coll) \cup (DOMAIN docs) |->
        IF id \in DOMAIN coll THEN coll[id] ELSE docs[id]]

\* an index_highlights without the early return
index_skips_never(hs) == FALSE

\* if not highlights: return
index_skips(hs) == hs = <<>>

\* the try around collection.delete(where={}): a failure is logged and the
\* collection stays as it was; clear_ok: whether collection.delete succeeds
clear_highlights(coll, clear_ok) == IF clear_ok THEN <<>> ELSE coll

\* index_highlights(highlights); embed_ok: whether embedding_model.encode
\* returns (its exception leaves index_highlights after the clear)
index_highlights(coll, hs, clear_ok, embed_ok) ==
    IF index_skips(hs) THEN [collection |-> coll, result |-> "noop"]
    ELSE LET cleared == clear_highlights(coll, clear_ok)
         IN  IF ~embed_ok THEN [collection |-> cleared, result |-> "raised"]
             ELSE [collection |-> collection_add(cleared, new_documents(hs)),
                   result |-> "returned"]

\* the provider call of query and its except branch: the flag is neither read
\* nor written on this path
query_generate(flag, client, outcome) ==
    IF ~client
    THEN Request("query", flag, FALSE, outcome, "fallback", flag)
    ELSE IF outcome = "ok"
    THEN Request("query", flag, TRUE, outcome, "llm", flag)
    ELSE Request("query", flag, TRUE, outcome, "fallback", flag)

\* a query that builds a context from no documents
no_context_never(docs) == FALSE

\* if not context_docs
no_context(docs) == DOMAIN docs = {}

\* the body of query's outer try; embed_ok, index_ok, fallback_ok: whether
\* the question embedding, collection.query and _generate_fallback_response
\* return; failure: the step that raised ("" if none did)
query_body(coll, flag, client, embed_ok, index_ok, fallback_ok, outcome) ==
    IF ~embed_ok
    THEN [response |-> "exception", requests |-> <<>>, failure |-> "embedding"]
    ELSE IF ~index_ok
    THEN [response |-> "exception", requests |-> <<>>, failure |-> "index"]
    ELSE IF no_context(coll)
    THEN [response |-> "insufficient", requests |-> <<>>, failure |-> ""]
    ELSE LET r == query_generate(flag, client, outcome)
         IN  IF r.result = "llm"
             THEN [response |-> "llm", requests |-> <<r>>, failure |-> ""]
             ELSE IF fallback_ok
             THEN [response |-> "fallback", requests |-> <<r>>, failure |-> ""]
             ELSE [response |-> "exception", requests |-> <<r>>,
                   failure |-> "fallback"]

\* a query without the outer except
outer_reraise(answer) == answer

\* the outer except of query: the fixed apology
outer_except(answer) ==
    IF answer = "exception" THEN "apology" ELSE answer

\* query(user_message)
query(coll, flag, client, embed_ok, index_ok, fallback_ok, outcome) ==
    LET b == query_body(coll, flag, client, embed_ok, index_ok, fallback_ok,
                        outcome)
    IN  [b EXCEPT !.response = outer_except(@)]

(***************************************************************************)
(* State machine.                                                          *)
(***************************************************************************)
Pairs(n) == {p \in (1..n) \X (1..n) : p[1] < p[2]}

\* the similarity matrices of n embeddings
Similarities(n) ==
    {sim \in [Pairs(n) -> SimValues \cup DriftValues] :
        \A p \in Pairs(n) : sim[p] \in DriftValues => p \in DriftPairs}

\* the provider's answer to the request that precedes the requests of the
\* next operation ("none": no request yet, or the provider was not called)
last_outcome == IF trace = <<>> THEN prev_outcome ELSE trace[Len(trace)].outcome

\* a freshly extracted Article: is_duplicate False, duplicate_group_id None
Article(url, category, summary) ==
    [url |-> url, category |-> category, summary |-> summary, keywords |-> {},
     is_duplicate |-> FALSE, duplicate_group_id |-> None]

\* kind: "detect" for the pipeline's call, "recluster" for a call on the
\* non-duplicates of the previous result; embedded: the call obtained
\* embeddings; prior_embedded: so did the call whose result it was given
NoCall == [kind |-> "none", input |-> <<>>, labels |-> <<>>, failed |-> FALSE,
           embedded |-> FALSE, prior_embedded |-> FALSE]

Operation(name, arg) == [name |-> name, arg |-> arg]

\* the operations of a sequential run are not split into steps
NoThreads == <<>>

\* process_news_pipeline up to the duplicate detection: the extracted and
\* summarized articles of all categories
Init ==
    /\ \E n \in 0..MaxArticles : \E cat \in [1..n -> Categories] :
          /\ articles = [i \in 1..n |-> Article(i, cat[i], TRUE)]
          /\ similarity \in Similarities(n)
    /\ highlights = <<>>
    /\ collection = <<>>
    /\ quota_exceeded = FALSE
    /\ openai_client = TRUE
    /\ trip_warnings = 0
    /\ trace = <<>>
    /\ prev_outcome = "none"
    /\ op = Operation("init", "")
    /\ call = NoCall
    /\ response = "none"
    /\ pc = NoThreads
    /\ local = NoThreads

\* all_articles = ai_processor.detect_duplicates(all_articles);
\* all_highlights = []
DetectDuplicates ==
    \E embed_ok \in BOOLEAN :
        LET r == detect_duplicates(articles, similarity, embed_ok)
        IN  /\ articles' = r.articles
            /\ call' = [kind |-> "detect", input |-> articles, labels |-> r.labels,
                        failed |-> r.failed, embedded |-> r.embedded,
                        prior_embedded |-> FALSE]
            /\ op' = Operation("detect_duplicates", "")
            /\ highlights' = <<>>
            /\ trace' = <<>>
            /\ prev_outcome' = last_outcome
            /\ response' = "none"
            /\ UNCHANGED <<pc, local, similarity, collection, quota_exceeded,
                           openai_client, trip_warnings>>

\* detect_duplicates applied again to the records of the previous result that
\* are not duplicates
ReclusterPrimaries ==
    /\ call.kind # "none"
    /\ \E embed_ok \in BOOLEAN :
        LET input == SelectSeq(articles, LAMBDA a : ~a.is_duplicate)
            r == detect_duplicates(input, similarity, embed_ok)
        IN  /\ articles' = r.articles
            /\ call' = [kind |-> "recluster", input |-> input, labels |-> r.labels,
                        failed |-> r.failed, embedded |-> r.embedded,
                        prior_embedded |-> call.embedded]
            /\ op' = Operation("recluster", "")
            /\ highlights' = <<>>
            /\ trace' = <<>>
            /\ prev_outcome' = last_outcome
            /\ response' = "none"
            /\ UNCHANGED <<pc, local, similarity, collection, quota_exceeded,
                           openai_client, trip_warnings>>

\* highlights = ai_processor.generate_highlights(all_articles, category)
GenerateHighlights ==
    \E category \in Categories :
        LET need == summaries_needed(articles, category)
        IN  /\ \E outcomes \in [1..need -> Outcomes] :
                LET r == generate_highlights(articles, category, quota_exceeded,
                                             openai_client, outcomes)
                IN  /\ highlights' = r.highlights
                    /\ quota_exceeded' = r.flag
                    /\ trip_warnings' = trip_warnings + r.warned
                    /\ trace' = r.requests
            /\ prev_outcome' = last_outcome
            /\ op' = Operation("generate_highlights", category)
            /\ response' = "none"
            /\ UNCHANGED <<pc, local, articles, similarity, collection, openai_client, call>>

\* what the provider may do when summarize_article is entered now
ProviderOutcomes ==
    IF skips_provider(openai_client, quota_exceeded) THEN {"none"} ELSE Outcomes

\* article.summary = ai_processor.summarize_article(article)
SummarizeArticle ==
    /\ \E i \in 1..Len(articles) : \E outcome \in ProviderOutcomes :
        LET r == summarize_article(quota_exceeded, openai_client, outcome)
        IN  /\ articles' = [articles EXCEPT ![i].summary = TRUE]
            /\ quota_exceeded' = r.flag
            /\ trip_warnings' = trip_warnings + r.warned
            /\ trace' = <<r.request>>
    /\ prev_outcome' = last_outcome
    /\ op' = Operation("summarize_article", "")
    /\ response' = "none"
    /\ UNCHANGED <<pc, local, similarity, highlights, collection, openai_client, call>>

\* chatbot.index_highlights(all_highlights)
IndexHighlights ==
    /\ \E clear_ok \in BOOLEAN : \E embed_ok \in BOOLEAN :
        LET r == index_highlights(collection, highlights, clear_ok, embed_ok)
        IN  /\ collection' = r.collection
            /\ op' = Operation("index_highlights", r.result)
    /\ trace' = <<>>
    /\ prev_outcome' = last_outcome
    /\ response' = "none"
    /\ UNCHANGED <<pc, local, articles, similarity, highlights, quota_exceeded,
                   openai_client, trip_warnings, call>>

\* what the provider may do in a query that gets as far as calling it
QueryOutcomes(embed_ok, index_ok) ==
    IF embed_ok /\ index_ok /\ DOMAIN collection # {} /\ openai_client
    THEN Outcomes ELSE {"none"}

\* chatbot.query(message.message)
Query ==
    /\ \E embed_ok \in BOOLEAN : \E index_ok \in BOOLEAN :
       \E fallback_ok \in BOOLEAN :
       \E outcome \in QueryOutcomes(embed_ok, index_ok) :
        LET r == query(collection, quota_exceeded, openai_client, embed_ok,
                       index_ok, fallback_ok, outcome)
        IN  /\ response' = r.response
            /\ trace' = r.requests
            /\ op' = Operation("query", r.failure)
    /\ prev_outcome' = last_outcome
    /\ UNCHANGED <<pc, local, articles, similarity, highlights, collection, quota_exceeded,
                   openai_client, trip_warnings, call>>

Next == DetectDuplicates \/ ReclusterPrimaries \/ GenerateHighlights

Spec == Init /\ [][Next]_vars

\* the summarization, synthesis, indexing and chat operations on articles that
\* may lack a summary, with OpenAI configured or not
GateInit ==
    /\ \E n \in 0..MaxGateArticles : \E summary \in [1..n -> BOOLEAN] :
          /\ articles = [i \in 1..n |-> Article(i, "sports", summary[i])]
          /\ similarity = [p \in Pairs(n) |-> 84]
    /\ highlights = <<>>
    /\ collection = <<>>
    /\ quota_exceeded = FALSE
    /\ openai_client \in BOOLEAN
    /\ trip_warnings = 0
    /\ trace = <<>>
    /\ prev_outcome = "none"
    /\ op = Operation("init", "")
    /\ call = NoCall
    /\ response = "none"
    /\ pc = NoThreads
    /\ local = NoThreads

GateNext == SummarizeArticle \/ GenerateHighlights \/ IndexHighlights \/ Query

GateSpec == GateInit /\ [][GateNext]_vars

\* the indexing and chat operations on the highlights of articles of any
\* category
IndexInit ==
    /\ \E n \in 0..MaxIndexArticles : \E cat \in [1..n -> Categories] :
          /\ articles = [i \in 1..n |-> Article(i, cat[i], TRUE)]
          /\ similarity = [p \in Pairs(n) |-> 84]
    /\ highlights = <<>>
    /\ collection = <<>>
    /\ quota_exceeded = FALSE
    /\ openai_client \in BOOLEAN
    /\ trip_warnings = 0
    /\ trace = <<>>
    /\ prev_outcome = "none"
    /\ op = Operation("init", "")
    /\ call = NoCall
    /\ response = "none"
    /\ pc = NoThreads
    /\ local = NoThreads

IndexNext == GenerateHighlights \/ IndexHighlights \/ Query

IndexSpec == IndexInit /\ [][IndexNext]_vars

\* the priority keywords a record's title and summary may contain
Keywords == {"breaking"}

\* the group ids records handed to generate_highlights may carry
SynthGroupIds == {None, <<"group", 0>>}

\* generate_highlights as a function of its input: records of any category,
\* with or without priority keywords, annotated or not by an earlier
\* detect_duplicates (a record marked duplicate has a group id)
SynthInit ==
    /\ \E n \in 0..MaxSynthArticles :
       \E cat \in [1..n -> Categories] :
       \E kw \in [1..n -> SUBSET Keywords] :
       \E gid \in [1..n -> SynthGroupIds] :
       \E dup \in [1..n -> BOOLEAN] :
          /\ \A i \in 1..n : dup[i] => gid[i] # None
          /\ articles = [i \in 1..n |->
                [url |-> i, category |-> cat[i], summary |-> TRUE,
                 keywords |-> kw[i], is_duplicate |-> dup[i],
                 duplicate_group_id |-> gid[i]]]
          /\ similarity = [p \in Pairs(n) |-> 84]
    /\ highlights = <<>>
    /\ collection = <<>>
    /\ quota_exceeded = FALSE
    /\ openai_client = TRUE
    /\ trip_warnings = 0
    /\ trace = <<>>
    /\ prev_outcome = "none"
    /\ op = Operation("init", "")
    /\ call = NoCall
    /\ response = "none"
    /\ pc = NoThreads
    /\ local = NoThreads

SynthNext == GenerateHighlights

SynthSpec == SynthInit /\ [][SynthNext]_vars

(***************************************************************************)
(* The two text fallbacks: _extractive_summary and                         *)
(* _generate_fallback_response. A text is its length in characters; a      *)
(* returned text is its length and whether it ends in the appended '...'.  *)
(***************************************************************************)
\* s[:cap]
truncate(length, cap) == IF length > cap THEN cap ELSE length

\* '. '.join(sentences)
RECURSIVE joined_length(_)
joined_length(sentences) ==
    IF sentences = <<>> THEN 0
    ELSE IF Len(sentences) = 1 THEN sentences[1]
    ELSE sentences[1] + 2 + joined_length(Tail(sentences))

\* the first n of the sentences
first(sentences, n) == SubSeq(sentences, 1, n)

\* the summary _extractive_summary assembles before it caps it; sentences:
\* the lengths of the stripped pieces of article.content between full stops
\* that are longer than 20 characters; content: len(article.content)
assembled_summary(sentences, content) ==
    IF Len(sentences) >= 3
    THEN [length |-> joined_length(first(sentences, 3)) + 1, ellipsis |-> FALSE]
    ELSE IF Len(sentences) >= 2
    THEN [length |-> joined_length(first(sentences, 2)) + 1, ellipsis |-> FALSE]
    ELSE IF Len(sentences) >= 1
    THEN [length |-> sentences[1] + 1, ellipsis |-> FALSE]
    ELSE IF content > HEAD_CAP
    THEN [length |-> truncate(content, HEAD_CAP) + ELLIPSIS, ellipsis |-> TRUE]
    ELSE [length |-> truncate(content, HEAD_CAP), ellipsis |-> FALSE]

\* _extractive_summary(article)
extractive_summary(sentences, content) ==
    LET summary == assembled_summary(sentences, content)
    IN  IF summary.length > SUMMARY_CAP
        THEN [length |-> truncate(summary.length, SUMMARY_CAP) + ELLIPSIS,
              ellipsis |-> TRUE]
        ELSE summary

\* _generate_fallback_response on a non-empty context; extracted: the length
\* of the 'Summary:' and 'Title:' lines of the chosen document, doc: the
\* length of that document; length: of the text after the prefix, the
\* ellipsis not counted
fallback_response(extracted, doc) ==
    IF extracted > 0
    THEN [length |-> truncate(extracted, FALLBACK_CAP), ellipsis |-> TRUE]
    ELSE [length |-> truncate(doc, FALLBACK_CAP), ellipsis |-> TRUE]

\* lengths of the substantial sentences of an article body
SentenceLengths == {21, 98, 99, 100}

\* lengths of an article body without a substantial sentence
ContentLengths == {0, 200, 201, 301}

\* lengths of an indexed document and of the lines extracted from it
DocLengths == {399, 400, 401}
ExtractedLengths == {0, 399, 400, 401}

\* the inputs of the two fallbacks: an article body and a retrieved document
TextInit ==
    /\ articles = <<>>
    /\ similarity = <<>>
    /\ highlights = <<>>
    /\ collection = <<>>
    /\ quota_exceeded = FALSE
    /\ openai_client = FALSE
    /\ trip_warnings = 0
    /\ trace = <<>>
    /\ prev_outcome = "none"
    /\ op = Operation("init", "")
    /\ call = NoCall
    /\ response = "none"
    /\ pc = NoThreads
    /\ \E n \in 0..MaxSentences : \E sentences \in [1..n -> SentenceLengths] :
       \E content \in ContentLengths :
       \E doc \in DocLengths : \E extracted \in ExtractedLengths :
          /\ n = 0 \/ content = 0
          /\ extracted <= doc + 1
          /\ local = [sentences |-> sentences, content |-> content,
                      doc |-> doc, extracted |-> extracted]

\* return self._extractive_summary(article)
ExtractiveSummary ==
    /\ response' = extractive_summary(local.sentences, local.content)
    /\ op' = Operation("extractive_summary", "")
    /\ UNCHANGED <<articles, similarity, highlights, collection, quota_exceeded,
                   openai_client, trip_warnings, trace, prev_outcome, call,
                   pc, local>>

\* return self._generate_fallback_response(context_docs, user_message)
FallbackResponse ==
    /\ response' = fallback_response(local.extracted, local.doc)
    /\ op' = Operation("fallback_response", "")
    /\ UNCHANGED <<articles, similarity, highlights, collection, quota_exceeded,
                   openai_client, trip_warnings, trace, prev_outcome, call,
                   pc, local>>

TextNext == ExtractiveSummary \/ FallbackResponse

TextSpec == TextInit /\ [][TextNext]_vars

(***************************************************************************)
(* summarize_article, statement by statement, in concurrent pipelines.     *)
(***************************************************************************)
\* the pipelines that /api/extract started as background tasks, each in a
\* thread of its own, all inside the summarization loop
Summarizers == 1..MaxSummarizers

TripInit ==
    /\ articles = <<>>
    /\ similarity = <<>>
    /\ highlights = <<>>
    /\ collection = <<>>
    /\ quota_exceeded = FALSE
    /\ openai_client \in BOOLEAN
    /\ trip_warnings = 0
    /\ trace = <<>>
    /\ prev_outcome = "none"
    /\ op = Operation("init", "")
    /\ call = NoCall
    /\ response = "none"
    /\ pc = [t \in Summarizers |-> "idle"]
    /\ local = [t \in Summarizers |-> [observed |-> FALSE, outcome |-> "none"]]

\* if not openai_client or _openai_quota_exceeded: return the extractive
\* summary; observed: the flag as this call read it
SummarizeEnter(t) ==
    /\ pc[t] \in {"idle", "done"}
    /\ pc' = [pc EXCEPT ![t] =
                IF skips_provider(openai_client, quota_exceeded)
                THEN "done" ELSE "call"]
    /\ local' = [local EXCEPT ![t] =
                    [observed |-> quota_exceeded, outcome |-> "none"]]
    /\ UNCHANGED <<articles, similarity, highlights, collection, quota_exceeded,
                   openai_client, trip_warnings, trace, prev_outcome, op, call,
                   response>>

\* openai_client.chat.completions.create: the summary is returned, or an
\* exception is raised
SummarizeCall(t) ==
    /\ pc[t] = "call"
    /\ \E outcome \in Outcomes :
          /\ local' = [local EXCEPT ![t].outcome = outcome]
          /\ pc' = [pc EXCEPT ![t] = IF outcome = "ok" THEN "done" ELSE "except"]
    /\ UNCHANGED <<articles, similarity, highlights, collection, quota_exceeded,
                   openai_client, trip_warnings, trace, prev_outcome, op, call,
                   response>>

\* except Exception as e: the signature test; an error without the signature
\* is logged and the extractive summary returned
SummarizeExcept(t) ==
    /\ pc[t] = "except"
    /\ pc' = [pc EXCEPT ![t] =
                IF is_quota_error(local[t].outcome) THEN "test" ELSE "done"]
    /\ UNCHANGED <<articles, similarity, highlights, collection, quota_exceeded,
                   openai_client, trip_warnings, trace, prev_outcome, op, call,
                   response, local>>

\* if not _openai_quota_exceeded
SummarizeTest(t) ==
    /\ pc[t] = "test"
    /\ pc' = [pc EXCEPT ![t] = IF ~quota_exceeded THEN "warn" ELSE "done"]
    /\ UNCHANGED <<articles, similarity, highlights, collection, quota_exceeded,
                   openai_client, trip_warnings, trace, prev_outcome, op, call,
                   response, local>>

\* logger.warning("OpenAI quota exceeded or rate limited. ...")
SummarizeWarn(t) ==
    /\ pc[t] = "warn"
    /\ trip_warnings' = trip_warnings + 1
    /\ pc' = [pc EXCEPT ![t] = "set"]
    /\ UNCHANGED <<articles, similarity, highlights, collection, quota_exceeded,
                   openai_client, trace, prev_outcome, op, call, response, local>>

\* _openai_quota_exceeded = True; return the extractive summary
SummarizeSet(t) ==
    /\ pc[t] = "set"
    /\ quota_exceeded' = flag_after_error(quota_exceeded, local[t].outcome)
    /\ pc' = [pc EXCEPT ![t] = "done"]
    /\ UNCHANGED <<articles, similarity, highlights, collection, openai_client,
                   trip_warnings, trace, prev_outcome, op, call, response, local>>

TripNext ==
    \E t \in Summarizers :
        \/ SummarizeEnter(t)
        \/ SummarizeCall(t)
        \/ SummarizeExcept(t)
        \/ SummarizeTest(t)
        \/ SummarizeWarn(t)
        \/ SummarizeSet(t)

TripSpec == TripInit /\ [][TripNext]_vars

(***************************************************************************)
(* index_highlights in the pipeline's thread and query in the chat         *)
(* handler, call by call on the shared collection.                         *)
(***************************************************************************)
\* local.docs: the documents the query retrieved; local.at: where the
\* pipeline stood when it did; local.prior: the collection when the running
\* index_highlights call started. No OpenAI key is configured: the answers
\* come from _generate_fallback_response.
RebuildInit ==
    /\ \E n \in 1..MaxRebuildArticles : \E cat \in [1..n -> Categories] :
          /\ articles = [i \in 1..n |-> Article(i, cat[i], TRUE)]
          /\ similarity = [p \in Pairs(n) |-> 84]
    /\ highlights = <<>>
    /\ collection = <<>>
    /\ quota_exceeded = FALSE
    /\ openai_client = FALSE
    /\ trip_warnings = 0
    /\ trace = <<>>
    /\ prev_outcome = "none"
    /\ op = Operation("init", "")
    /\ call = NoCall
    /\ response = "none"
    /\ pc = [pipeline |-> "idle", chat |-> "idle"]
    /\ local = [docs |-> <<>>, at |-> "none", prior |-> <<>>]

\* the pipeline's generate_highlights call, before it calls index_highlights
PipelineGenerate ==
    /\ pc.pipeline = "idle"
    /\ GenerateHighlights

\* index_highlights is entered: if not highlights: return
IndexBegin ==
    /\ pc.pipeline = "idle"
    /\ IF index_skips(highlights)
       THEN /\ op' = Operation("index_highlights", "noop")
            /\ UNCHANGED <<pc, local>>
       ELSE /\ pc' = [pc EXCEPT !.pipeline = "clear"]
            /\ local' = [local EXCEPT !.prior = collection, !.at = "none"]
            /\ UNCHANGED op
    /\ UNCHANGED <<articles, similarity, highlights, collection, quota_exceeded,
                   openai_client, trip_warnings, trace, prev_outcome, call,
                   response>>

\* the try around self.collection.delete(where={})
IndexClear ==
    /\ pc.pipeline = "clear"
    /\ \E clear_ok \in BOOLEAN :
          collection' = clear_highlights(collection, clear_ok)
    /\ pc' = [pc EXCEPT !.pipeline = "insert"]
    /\ UNCHANGED <<articles, similarity, highlights, quota_exceeded,
                   openai_client, trip_warnings, trace, prev_outcome, op, call,
                   response, local>>

\* the documents are built and embedded, then self.collection.add
IndexInsert ==
    /\ pc.pipeline = "insert"
    /\ \E embed_ok \in BOOLEAN :
          IF embed_ok
          THEN /\ collection' = collection_add(collection,
                                               new_documents(highlights))
               /\ op' = Operation("index_highlights", "returned")
          ELSE /\ op' = Operation("index_highlights", "raised")
               /\ UNCHANGED collection
    /\ pc' = [pc EXCEPT !.pipeline = "idle"]
    /\ UNCHANGED <<articles, similarity, highlights, quota_exceeded,
                   openai_client, trip_warnings, trace, prev_outcome, call,
                   response, local>>

\* query is entered: self.embedding_model.encode([user_message])
QueryEmbed ==
    /\ pc.chat = "idle"
    /\ \E embed_ok \in BOOLEAN :
          IF embed_ok
          THEN /\ pc' = [pc EXCEPT !.chat = "retrieve"]
               /\ UNCHANGED <<response, op, trace, prev_outcome>>
          ELSE LET r == query(collection, quota_exceeded, openai_client, FALSE,
                              TRUE, TRUE, "none")
               IN  /\ response' = r.response
                   /\ op' = Operation("query", r.failure)
                   /\ trace' = r.requests
                   /\ prev_outcome' = last_outcome
                   /\ UNCHANGED pc
    /\ UNCHANGED <<articles, similarity, highlights, collection, quota_exceeded,
                   openai_client, trip_warnings, call, local>>

\* a query that waits until no index_highlights call is under way
query_waits_for_index(pcs) == pcs.pipeline = "idle"

\* self.collection.query is called as soon as the embedding is there: no
\* lock is taken, whatever the pipeline's thread is doing
query_may_retrieve(pcs) == TRUE

\* self.collection.query(query_embeddings=..., n_results=top_k)
QueryRetrieve ==
    /\ pc.chat = "retrieve"
    /\ query_may_retrieve(pc)
    /\ \E index_ok \in BOOLEAN :
          IF index_ok
          THEN /\ pc' = [pc EXCEPT !.chat = "answer"]
               /\ local' = [local EXCEPT !.docs = collection,
                                          !.at = pc.pipeline]
               /\ UNCHANGED <<response, op, trace, prev_outcome>>
          ELSE LET r == query(collection, quota_exceeded, openai_client, TRUE,
                              FALSE, TRUE, "none")
               IN  /\ response' = r.response
                   /\ op' = Operation("query", r.failure)
                   /\ trace' = r.requests
                   /\ prev_outcome' = last_outcome
                   /\ pc' = [pc EXCEPT !.chat = "idle"]
                   /\ UNCHANGED local
    /\ UNCHANGED <<articles, similarity, highlights, collection, quota_exceeded,
                   openai_client, trip_warnings, call>>

\* the rest of query, on the documents it retrieved
QueryAnswer ==
    /\ pc.chat = "answer"
    /\ \E fallback_ok \in BOOLEAN :
       \E outcome \in IF no_context(local.docs) \/ ~openai_client
                      THEN {"none"} ELSE Outcomes :
          LET r == query(local.docs, quota_exceeded, openai_client, TRUE, TRUE,
                         fallback_ok, outcome)
          IN  /\ response' = r.response
              /\ op' = Operation("query", r.failure)
              /\ trace' = r.requests
    /\ prev_outcome' = last_outcome
    /\ pc' = [pc EXCEPT !.chat = "idle"]
    /\ UNCHANGED <<articles, similarity, highlights, collection, quota_exceeded,
                   openai_client, trip_warnings, call, local>>

RebuildNext ==
    \/ PipelineGenerate
    \/ IndexBegin
    \/ IndexClear
    \/ IndexInsert
    \/ QueryEmbed
    \/ QueryRetrieve
    \/ QueryAnswer

RebuildSpec == RebuildInit /\ [][RebuildNext]_vars

(***************************************************************************)
(* Properties.                                                             *)
(***************************************************************************)
Requests == {trace[k] : k \in 1..Len(trace)}

\* C1: once the quota flag is set, every later generation request, from
\* summarize_article or from query, is answered with the fallback and does
\* not call the provider.
C1_DegradedGateSkipsProvider ==
    \A r \in Requests : r.before => ~r.invoked /\ r.result = "fallback"

\* C2: a quota error raised by the provider during query sets the shared
\* flag, as a quota error during summarize_article does.
C2_QueryQuotaErrorTripsGate ==
    \A r \in Requests :
        r.op = "query" /\ r.invoked /\ r.outcome = "quota"
            => r.after /\ quota_exceeded

\* C3: the flag starts unset, once set it stays set, and it is set only by an
\* operation in which the provider answered with a quota error.
C3_GateIsOneWayLatch ==
    /\ ~quota_exceeded
    /\ [][/\ quota_exceeded => quota_exceeded'
          /\ ~quota_exceeded /\ quota_exceeded'
                => \E k \in 1..Len(trace') :
                      /\ trace'[k].invoked
                      /\ trace'[k].outcome = "quota"
                      /\ ~trace'[k].before /\ trace'[k].after]_vars

\* a request was made, and skipped the provider, while the flag was set
C3_Witness ==
    /\ quota_exceeded
    /\ \E r \in Requests : r.op = "summarize" /\ r.before /\ ~r.invoked

\* C4: a provider error without the quota signature is answered with the
\* fallback and leaves the flag as it was, and if the flag is unset the next
\* generation request calls the provider again.
C4_TransientErrorKeepsGateOpen ==
    /\ \A r \in Requests :
          r.invoked /\ r.outcome = "error"
              => r.result = "fallback" /\ r.after = r.before
    /\ \A k \in 2..Len(trace) :
          trace[k - 1].outcome = "error" /\ ~trace[k].before => trace[k].invoked
    /\ trace # <<>> /\ prev_outcome = "error" /\ ~trace[1].before
          => trace[1].invoked

\* the request after a non-quota error called the provider again
C4_Witness ==
    /\ trace # <<>>
    /\ prev_outcome = "error"
    /\ ~trace[1].before
    /\ trace[1].invoked

\* the positions of the records that carry group id g
Members(arts, g) == {i \in 1..Len(arts) : arts[i].duplicate_group_id = g}

GroupIds(arts) == {arts[i].duplicate_group_id : i \in 1..Len(arts)} \ {None}

\* the highlights backed by a record at one of the positions
HighlightsOf(arts, positions) ==
    {k \in 1..Len(highlights) :
        \E i \in positions : arts[i].url \in Range(highlights[k].urls)}

\* C5: after detect_duplicates and generate_highlights(c), a cluster of n >= 2
\* records that all have category c is represented by exactly one highlight,
\* and its frequency is n.
C5_ClusterGivesOneHighlightOfFrequencyN ==
    op.name = "generate_highlights" =>
        \A g \in GroupIds(articles) :
            LET members == Members(articles, g)
            IN  /\ Cardinality(members) >= 2
                /\ \A i \in members : articles[i].category = op.arg
                => /\ Cardinality(HighlightsOf(articles, members)) = 1
                   /\ \A k \in HighlightsOf(articles, members) :
                         highlights[k].frequency = Cardinality(members)

\* the pairs of positions of the last call's input whose embeddings have a
\* cosine similarity of at least the threshold
SimilarPairs ==
    {p \in Pairs(Len(call.input)) :
        cosine_similarity(call.input, similarity, p[1], p[2])
            >= SIMILARITY_THRESHOLD}

\* C6: two records whose embeddings have cosine similarity >= the threshold
\* carry the same non-null group id after detect_duplicates, and at most one
\* of them is not marked duplicate, whatever else is in the input.
C6_SimilarPairSharesGroup ==
    call.embedded =>
        /\ Len(articles) = Len(call.input)
        /\ \A p \in SimilarPairs :
              /\ articles[p[1]].duplicate_group_id # None
              /\ articles[p[1]].duplicate_group_id = articles[p[2]].duplicate_group_id
              /\ articles[p[1]].is_duplicate \/ articles[p[2]].is_duplicate

\* a similar pair was clustered next to a record similar to neither
C6_Witness ==
    /\ call.embedded
    /\ \E p \in SimilarPairs : \E i \in 1..Len(call.input) :
          /\ i \notin {p[1], p[2]}
          /\ \A q \in SimilarPairs : i \notin {q[1], q[2]}
          /\ articles[p[1]].duplicate_group_id = articles[p[2]].duplicate_group_id
          /\ articles[i].duplicate_group_id = None

\* C7: in every state reached by detect_duplicates calls, repeated or failing
\* open, a record marked duplicate has a group id.
C7_DuplicateHasGroupId ==
    \A i \in 1..Len(articles) :
        articles[i].is_duplicate => articles[i].duplicate_group_id # None

\* a call failed open on records an earlier call had marked
C7_Witness ==
    /\ call.failed
    /\ \E i \in 1..Len(articles) : articles[i].is_duplicate

\* the fields of a record that detect_duplicates does not assign
Unassigned(a) ==
    [url |-> a.url, category |-> a.category, summary |-> a.summary,
     keywords |-> a.keywords]

\* C8: detect_duplicates returns its input records in the input order; only
\* is_duplicate and duplicate_group_id may differ, and a record labelled noise
\* is returned as it was given.
C8_ClusterKeepsRecords ==
    call.kind # "none" =>
        /\ Len(articles) = Len(call.input)
        /\ \A i \in 1..Len(call.input) :
              /\ i <= Len(articles)
              /\ Unassigned(articles[i]) = Unassigned(call.input[i])
              /\ (call.labels = <<>> \/ call.labels[i] = NOISE)
                    => articles[i] = call.input[i]

\* a call left a noise record alone next to a cluster it marked
C8_Witness ==
    /\ call.kind # "none"
    /\ call.labels # <<>>
    /\ \E i, j \in 1..Len(call.labels) :
          /\ call.labels[i] = NOISE
          /\ call.labels[j] # NOISE
          /\ articles[j].is_duplicate
          /\ ~call.input[j].is_duplicate

\* C9: with fewer than 2 records, or when the embedding or the clustering
\* raises, detect_duplicates returns the records it was given, unmodified.
C9_ClusterFailsOpen ==
    call.kind # "none" /\ (Len(call.input) < 2 \/ call.failed)
        => articles = call.input

\* a call failed open on an input that holds a similar pair
C9_Witness ==
    /\ call.kind # "none"
    /\ call.failed
    /\ SimilarPairs # {}
    /\ articles = call.input

\* C10: clustering again the records of a detect_duplicates result that are
\* not duplicates, with the embeddings both calls work from unchanged, marks
\* no record as duplicate.
C10_ReclusterMarksNothing ==
    call.kind = "recluster" /\ call.prior_embedded
        => \A i \in 1..Len(articles) : ~articles[i].is_duplicate

\* the second call clustered a primary and another record and marked neither
C10_Witness ==
    /\ call.kind = "recluster"
    /\ call.prior_embedded
    /\ call.embedded
    /\ Len(articles) >= 2
    /\ \E i \in 1..Len(articles) : call.input[i].duplicate_group_id # None
    /\ \A i \in 1..Len(articles) : ~articles[i].is_duplicate

\* the position in the input of the record with the given url
Position(url) == CHOOSE i \in 1..Len(articles) : articles[i].url = url

\* highlights k and l have the same priority_score and the same frequency
Tied(k, l) ==
    /\ highlights[k].priority_score = highlights[l].priority_score
    /\ highlights[k].frequency = highlights[l].frequency

\* C11: the list generate_highlights returns is non-increasing in
\* (priority_score, frequency), and highlights equal in both stand in the
\* order in which their groups were first met in the input.
C11_SortedDescendingAndStable ==
    op.name = "generate_highlights" =>
        \A k, l \in 1..Len(highlights) :
            k < l =>
                /\ highlights[k].priority_score >= highlights[l].priority_score
                /\ highlights[k].priority_score = highlights[l].priority_score
                      => highlights[k].frequency >= highlights[l].frequency
                /\ Tied(k, l)
                      => Position(highlights[k].primary)
                            < Position(highlights[l].primary)

\* two tied highlights follow, in input order, a highlight whose group was
\* met after theirs
C11_Witness ==
    /\ op.name = "generate_highlights"
    /\ \E j, k, l \in 1..Len(highlights) :
          /\ j < k /\ k < l
          /\ Tied(k, l)
          /\ Position(highlights[j].primary) > Position(highlights[l].primary)
          /\ Position(highlights[k].primary) < Position(highlights[l].primary)

\* C12: when index_highlights returns from a non-empty list, the collection
\* holds exactly the documents of that list under highlight_0 ..
\* highlight_{n-1}, and nothing an earlier call inserted.
C12_IndexReplacesCollection ==
    op.name = "index_highlights" /\ op.arg = "returned"
        => collection = new_documents(highlights)

\* C13: index_highlights called with an empty list neither clears nor
\* inserts: the collection after the call is the collection before it.
C13_EmptyIndexIsNoOp ==
    [][op'.name = "index_highlights" /\ highlights = <<>>
          => collection' = collection /\ op'.arg = "noop"]_vars

\* index_highlights returned from an empty list and the documents of the
\* previous run are still in the collection
C13_Witness ==
    /\ op = Operation("index_highlights", "noop")
    /\ highlights = <<>>
    /\ collection # <<>>

\* C14: a query on a collection that holds no document does not call the
\* provider and raises no exception, and when the question embedding and the
\* retrieval return, its answer is the fixed insufficient-information
\* message.
C14_QueryOnEmptyIndexIsInsufficient ==
    op.name = "query" /\ collection = <<>> =>
        /\ trace = <<>>
        /\ response \in {"insufficient", "apology"}
        /\ op.arg = "" => response = "insufficient"

\* highlights were generated but not indexed yet, and a query retrieved
\* nothing
C14_Witness ==
    /\ op = Operation("query", "")
    /\ collection = <<>>
    /\ highlights # <<>>
    /\ openai_client
    /\ response = "insufficient"

\* C15: query hands no exception to its caller and leaves the collection as
\* it was: when the question embedding, collection.query or the fallback
\* computation raises, it returns the fixed apology; when the provider call
\* raises, it returns the fallback answer.
C15_QueryNeverRaises ==
    [][op'.name = "query" =>
          /\ collection' = collection
          /\ response' \in {"llm", "fallback", "insufficient", "apology"}
          /\ op'.arg \in {"embedding", "index", "fallback"}
                => response' = "apology"
          /\ \A k \in 1..Len(trace') :
                /\ trace'[k].invoked
                /\ trace'[k].outcome \in {"quota", "error"}
                /\ op'.arg = ""
                => response' = "fallback"]_vars

\* the provider answered a query on a populated collection with a quota
\* error, the fallback computation raised, and the caller got the apology
C15_Witness ==
    /\ op = Operation("query", "fallback")
    /\ collection # <<>>
    /\ trace # <<>>
    /\ trace[1].invoked
    /\ trace[1].outcome = "quota"
    /\ response = "apology"

\* the labels of the clusters the last call found
Clusters == {call.labels[i] : i \in 1..Len(call.labels)} \ {NOISE}

\* the positions the last call labelled c
ClusterMembers(c) == {i \in 1..Len(call.labels) : call.labels[i] = c}

\* the lowest position of a non-empty set of positions
Lowest(positions) == CHOOSE i \in positions : \A j \in positions : i <= j

Linked(i, j) == <<i, j>> \in SimilarPairs \/ <<j, i>> \in SimilarPairs

\* the positions reachable from a set of positions along linked pairs
RECURSIVE Reach(_)
Reach(positions) ==
    LET next == positions \cup
                {j \in 1..Len(call.input) : \E i \in positions : Linked(i, j)}
    IN  IF next = positions THEN positions ELSE Reach(next)

\* C17: after a detect_duplicates call that clustered its input, two records
\* carry the same group id exactly if a chain of input records, each
\* consecutive pair of cosine similarity >= the threshold, connects them; a
\* record with no other record within eps is left as it was given, without a
\* group id if it had none.
C17_GroupsAreSimilarityChains ==
    call.embedded =>
        /\ \A i, j \in 1..Len(call.input) :
              i # j =>
                 ((/\ articles[i].duplicate_group_id # None
                   /\ articles[i].duplicate_group_id
                         = articles[j].duplicate_group_id)
                  <=> j \in Reach({i}))
        /\ \A i \in 1..Len(call.input) :
              Reach({i}) = {i} =>
                 /\ articles[i] = call.input[i]
                 /\ call.input[i].duplicate_group_id = None
                       => articles[i].duplicate_group_id = None

\* two records that are not similar to each other share a group id through a
\* third that is similar to both
C17_Witness ==
    /\ call.embedded
    /\ \E i, j \in 1..Len(call.input) :
          /\ i # j
          /\ ~Linked(i, j)
          /\ j \in Reach({i})
          /\ articles[i].duplicate_group_id # None
          /\ articles[i].duplicate_group_id = articles[j].duplicate_group_id
          /\ call.input[i].duplicate_group_id = None

\* the positions of the records generate_highlights(c) keeps: category c,
\* not marked duplicate
Kept(c) ==
    {i \in 1..Len(articles) :
        articles[i].category = c /\ ~articles[i].is_duplicate}

\* the highlights whose urls hold the url of the record at position i
HighlightsWith(i) ==
    {k \in 1..Len(highlights) : articles[i].url \in Range(highlights[k].urls)}

\* C18: the highlights generate_highlights(c) returns partition the records
\* of category c that are not marked duplicate: each such record's url is in
\* the urls of exactly one highlight and no other url is in any; records
\* with the same group id are in the same highlight; a record without a
\* group id has a highlight of its own; and a highlight's frequency is the
\* number of records behind it.
C18_HighlightsPartitionRecords ==
    op.name = "generate_highlights" =>
        /\ \A i \in Kept(op.arg) : Cardinality(HighlightsWith(i)) = 1
        /\ \A k \in 1..Len(highlights) :
              /\ \A u \in Range(highlights[k].urls) :
                    \E i \in Kept(op.arg) : articles[i].url = u
              /\ highlights[k].frequency = Len(highlights[k].urls)
              /\ highlights[k].frequency
                    = Cardinality(Range(highlights[k].urls))
              /\ highlights[k].frequency >= 1
        /\ \A i, j \in Kept(op.arg) :
              /\ articles[i].duplicate_group_id # None
              /\ articles[i].duplicate_group_id = articles[j].duplicate_group_id
              => HighlightsWith(i) = HighlightsWith(j)
        /\ \A i \in Kept(op.arg) :
              articles[i].duplicate_group_id = None
                 => \A k \in HighlightsWith(i) :
                       highlights[k].urls = <<articles[i].url>>

\* two records with one group id back one highlight, next to the highlight
\* of a record without group id
C18_Witness ==
    /\ op.name = "generate_highlights"
    /\ \E i, j, l \in Kept(op.arg) :
          /\ i # j
          /\ articles[i].duplicate_group_id # None
          /\ articles[i].duplicate_group_id = articles[j].duplicate_group_id
          /\ articles[l].duplicate_group_id = None
          /\ HighlightsWith(i) = HighlightsWith(j)
          /\ HighlightsWith(l) # HighlightsWith(i)
          /\ \A k \in HighlightsWith(i) : highlights[k].frequency = 2

\* C19: nothing keeps a query from retrieving while index_highlights stands
\* between its clear and its insert, and a query that retrieved no document
\* answers with the insufficient-information message.
C19_QueryCanRetrieveMidRebuild ==
    /\ pc.chat = "retrieve" => ENABLED QueryRetrieve
    /\ op = Operation("query", "") /\ pc.chat = "idle" /\ local.docs = <<>>
          => response = "insufficient"

\* a query retrieved between the clear and the insert of an index_highlights
\* call that started from a populated collection and has since filled it
\* again, and answered with the insufficient-information message
C19_Witness ==
    /\ op = Operation("query", "")
    /\ pc.chat = "idle"
    /\ response = "insufficient"
    /\ local.at = "insert"
    /\ local.docs = <<>>
    /\ local.prior # <<>>
    /\ pc.pipeline = "idle"
    /\ highlights # <<>>
    /\ collection = new_documents(highlights)

\* C20: when concurrent summarize_article calls all read the flag unset and
\* all get a quota error, then once they have returned the flag is set and
\* the trip warning has been logged exactly once.
C20_ConcurrentTripWarnsOnce ==
    (\A t \in Summarizers :
        /\ pc[t] = "done"
        /\ ~local[t].observed
        /\ local[t].outcome = "quota")
    => quota_exceeded /\ trip_warnings = 1

\* C21: the fallback answer holds the extracted text cut to 400 characters,
\* followed by an ellipsis only if the text was longer than 400 characters.
C21_FallbackEllipsisOnlyIfTruncated ==
    op.name = "fallback_response" /\ local.extracted > 0 =>
        /\ response.length <= FALLBACK_CAP
        /\ local.extracted <= FALLBACK_CAP => response.length = local.extracted
        /\ response.ellipsis <=> local.extracted > FALLBACK_CAP

\* C22: the text _extractive_summary returns is at most 300 characters long,
\* and it ends in an ellipsis only if the assembled summary was longer than
\* 300 characters.
C22_ExtractiveSummaryCappedAt300 ==
    op.name = "extractive_summary" =>
        /\ response.length <= SUMMARY_CAP
        /\ response.ellipsis
              => assembled_summary(local.sentences, local.content).length
                    > SUMMARY_CAP

\* C23: every highlight generate_highlights returns has a priority_score of
\* at least 0.5, so its keywords field is the configured keyword list, never
\* the empty list.
C23_HighlightKeywordsNeverEmpty ==
    op.name = "generate_highlights" =>
        \A k \in 1..Len(highlights) :
            /\ highlights[k].priority_score >= 1
            /\ highlights[k].priority_score >= highlights[k].frequency
            /\ highlights[k].has_keywords

\* the highlight of a single record whose text holds no priority keyword has
\* the score 0.5 and the keyword list
C23_Witness ==
    /\ op.name = "generate_highlights"
    /\ \E k \in 1..Len(highlights) :
          /\ highlights[k].frequency = 1
          /\ articles[Position(highlights[k].primary)].keywords = {}
          /\ highlights[k].priority_score = 1
          /\ highlights[k].has_keywords

\* highlight k tells the story of the record at position i: it lists the
\* record's url, or its primary record carries the record's group id
Represents(k, i) ==
    \/ articles[i].url \in Range(highlights[k].urls)
    \/ /\ articles[i].duplicate_group_id # None
       /\ articles[Position(highlights[k].primary)].duplicate_group_id
             = articles[i].duplicate_group_id

\* C24: after detect_duplicates over the records of all categories, every
\* record of category c has a highlight of category c for its story in the
\* result of generate_highlights(c), also when it was marked duplicate of a
\* primary of another category.
C24_EveryRecordHasHighlightInItsCategory ==
    op.name = "generate_highlights" =>
        \A i \in 1..Len(articles) :
            articles[i].category = op.arg =>
                \E k \in 1..Len(highlights) :
                    /\ highlights[k].category = op.arg
                    /\ Represents(k, i)

\* C25: when index_highlights raises after its clear step, the collection
\* still holds the documents it held when the call started, those of the
\* previous index_highlights call.
C25_FailedIndexKeepsOldDocuments ==
    /\ op = Operation("index_highlights", "raised")
    /\ pc.pipeline = "idle"
    /\ local.prior # <<>>
    => collection = local.prior

====
